---- MODULE Spec2Model ----
(***************************************************************************)
(* jump_list (src/include/jump_list.h): a skip list storing unique keys.   *)
(*                                                                         *)
(* The heap is a store of slots; a Node* is a slot number and nullptr is   *)
(* NULL.  A container is its header pointer, its level and its size_.      *)
(* The lookups (find, count, contains, lower_bound, upper_bound,           *)
(* equal_range) and operator== write nothing: they are operators of the    *)
(* state, and the properties apply them to every key in every reachable    *)
(* state.  The mutators (insert, erase by key, by position and by range,   *)
(* clear) are the actions; each records its arguments and its result in    *)
(* ret.  insert(const T&) and insert(T&&) run the same steps and are one   *)
(* operator; InsertThrow is insert with createNode throwing.               *)
(*                                                                         *)
(* Spec runs one container.  SpecTwo runs two: the second is made from the *)
(* first by copy or by move, both are then modified and assigned to each   *)
(* other, and erase(pos) is also given cursors of the other container.     *)
(***************************************************************************)
EXTENDS Integers, Sequences, FiniteSets, TLC

\* Payload values are 1..NumVals.
NumVals == 4

\* The longest run of draws below P that the random source produces in one
\* call of randomLevel.
MaxHeads == 2

\* Where two containers act on each other, the payload values are 2..TwoVals
\* and the random source produces runs of at most TwoHeads draws below P.
TwoVals == 3

TwoHeads == 0

\* The payloads of the runs in which nodes reach level MAX_LEVEL are
\* 1..TallVals.
TallVals == 3

\* static constexpr int MAX_LEVEL = 32;
MAX_LEVEL == 32

NULL == 0

\* A pointer read through a node that is not allocated, or a forward slot
\* outside the node's vector.
WILD == -1

Values == 1..NumVals

Conts == {1, 2}

NumSlots == 2 * NumVals + 2

Slots == 1..NumSlots

VARIABLES
    data,       \* Node::data of every slot (0: no payload)
    forward,    \* Node::forward of every slot, a function on 0..level of the node
    backward,   \* Node::backward of every slot
    allocated,  \* the slots AllocatorTraits::allocate has handed out
    header,     \* jump_list::header of every container (NULL: not constructed)
    level,      \* jump_list::level of every container
    size_,      \* jump_list::size_ of every container
    ub,         \* an operation has read or written outside an allocated node
    ret,        \* the last call: operation, arguments and returned value
    S,          \* per container, the abstract set the operations act on
    net         \* per container, the insertions that returned true minus the
                \* erasures that removed an element, since it was last empty by
                \* construction or clear()

vars == <<data, forward, backward, allocated, header, level, size_, ub, ret, S, net>>

\* The program state as one value, for the operators that transform it.
State ==
    [data |-> data, forward |-> forward, backward |-> backward,
     allocated |-> allocated, header |-> header, level |-> level,
     size_ |-> size_, ub |-> ub]

\* Compare comp: the ordering of the container.  The instance modelled orders
\* the values by v \div 2, so two different payloads can be equivalent.
comp(a, b) == (a \div 2) < (b \div 2)

\* !comp(a, b) && !comp(b, a)
Equivalent(a, b) == ~comp(a, b) /\ ~comp(b, a)

\* node->forward[i]
Fwd(st, n, i) ==
    IF n \in st.allocated /\ i \in DOMAIN st.forward[n] THEN st.forward[n][i] ELSE WILD

\* node->data
Data(st, n) == IF n \in st.allocated THEN st.data[n] ELSE 0

\* node->backward
Bwd(st, n) == IF n \in st.allocated THEN st.backward[n] ELSE WILD

\* node->forward[i] = v
SetFwd(st, n, i, v) ==
    IF n \in st.allocated /\ i \in DOMAIN st.forward[n] /\ v # WILD
    THEN [st EXCEPT !.forward[n][i] = v]
    ELSE [st EXCEPT !.ub = TRUE]

\* node->backward = v
SetBwd(st, n, v) ==
    IF n \in st.allocated /\ v # WILD
    THEN [st EXCEPT !.backward[n] = v]
    ELSE [st EXCEPT !.ub = TRUE]

\* iterator(Node* n, Node* h)
iterator(n, h) == [node |-> n, header |-> h]

\* begin()
begin(st, c) == iterator(Fwd(st, st.header[c], 0), st.header[c])

\* end()
end(st, c) == iterator(NULL, st.header[c])

\* iterator::operator==
IterEq(a, b) == a.node = b.node

\* iterator::operator++
IterNext(st, it) == iterator(Fwd(st, it.node, 0), it.header)

\* iterator::operator--
IterPrev(st, it) ==
    IF it.node # NULL THEN iterator(Bwd(st, it.node), it.header)
    ELSE IF it.header # NULL THEN iterator(Bwd(st, it.header), it.header)
    ELSE it

\* size()
size(st, c) == st.size_[c]

\* empty()
empty(st, c) == st.size_[c] = 0

\* randomLevel without the bound lvl < MAX_LEVEL in its loop.
randomLevel_NoCap(heads) == heads

\* int randomLevel(): heads is the number of consecutive draws below P.
randomLevel(heads) == IF heads < MAX_LEVEL THEN heads ELSE MAX_LEVEL

\* Walk with the comparator's arguments exchanged: comp(value, next->data).
RECURSIVE Walk_Reversed(_, _, _, _)
Walk_Reversed(st, current, i, value) ==
    LET nxt == Fwd(st, current, i) IN
    IF nxt = WILD THEN WILD
    ELSE IF nxt # NULL /\ comp(value, Data(st, nxt))
         THEN Walk_Reversed(st, nxt, i, value)
    ELSE current

\* while (current->forward[i] && comp(current->forward[i]->data, value))
\*     current = current->forward[i];
RECURSIVE Walk(_, _, _, _)
Walk(st, current, i, value) ==
    LET nxt == Fwd(st, current, i) IN
    IF nxt = WILD THEN WILD
    ELSE IF nxt # NULL /\ comp(Data(st, nxt), value) THEN Walk(st, nxt, i, value)
    ELSE current

\* update[i]
UpdateAt(update, i) == IF i \in DOMAIN update THEN update[i] ELSE WILD

\* The iterations i = hi, hi - 1, ..., lo of
\*     for (...; --i) { while ...; update[i] = current; }
\* from r = [current, update].  A range of several levels is run as its upper
\* half followed by its lower half, which keeps the evaluation shallow; an
\* access out of range ends the loop: what follows it is undefined.
RECURSIVE FillLevels(_, _, _, _, _)
FillLevels(st, r, hi, lo, value) ==
    IF hi < lo THEN r
    ELSE IF hi = lo
    THEN LET cur == Walk(st, r.current, hi, value)
             upd == [r.update EXCEPT ![hi] = cur]
         IN IF UpdateAt(upd, hi) = WILD THEN [current |-> WILD, update |-> upd]
            ELSE [current |-> cur, update |-> upd]
    ELSE LET mid == (hi + lo + 1) \div 2
             half == FillLevels(st, r, hi, mid, value)
         IN IF half.current = WILD THEN half
            ELSE FillLevels(st, half, mid - 1, lo, value)

\* for (int i = level; i >= 0; --i) { while ...; update[i] = current; }
FillUpdate(st, current, i, value, update) ==
    FillLevels(st, [current |-> current, update |-> update], i, 0, value)

\* The update trail one entry short: std::vector<Node*> update(MAX_LEVEL).
NewUpdate_Short == [i \in 0..(MAX_LEVEL - 1) |-> NULL]

\* std::vector<Node*> update(MAX_LEVEL + 1);
NewUpdate == [i \in 0..MAX_LEVEL |-> NULL]

\* The iterations i = hi, hi - 1, ..., lo of for (...; --i) { while ... },
\* the upper half of the levels before the lower half.
RECURSIVE DescendLevels(_, _, _, _, _)
DescendLevels(st, current, hi, lo, key) ==
    IF hi < lo THEN current
    ELSE IF hi = lo THEN Walk(st, current, hi, key)
    ELSE LET mid == (hi + lo + 1) \div 2
             half == DescendLevels(st, current, hi, mid, key)
         IN IF half = WILD THEN WILD
            ELSE DescendLevels(st, half, mid - 1, lo, key)

\* Descend that stops above level 0: for (int i = level; i > 0; --i).
Descend_SkipBase(st, current, i, key) == DescendLevels(st, current, i, 1, key)

\* for (int i = level; i >= 0; --i) { while ... } (the lookups keep no trail)
Descend(st, current, i, key) == DescendLevels(st, current, i, 0, key)

\* find without the test of the node it lands on.
find_NoCheck(st, c, key) ==
    iterator(Fwd(st, Descend(st, st.header[c], st.level[c], key), 0), st.header[c])

\* iterator find(const T& key)
find(st, c, key) ==
    LET current == Fwd(st, Descend(st, st.header[c], st.level[c], key), 0) IN
    IF current # NULL /\ current # WILD
       /\ ~comp(Data(st, current), key) /\ ~comp(key, Data(st, current))
    THEN iterator(current, st.header[c])
    ELSE IF current = WILD THEN iterator(WILD, st.header[c])
    ELSE end(st, c)

\* size_type count(const T& key) const
count(st, c, key) == IF ~IterEq(find(st, c, key), end(st, c)) THEN 1 ELSE 0

\* bool contains(const T& key) const
contains(st, c, key) == ~IterEq(find(st, c, key), end(st, c))

\* iterator lower_bound(const T& key)
lower_bound(st, c, key) ==
    iterator(Fwd(st, Descend(st, st.header[c], st.level[c], key), 0), st.header[c])

\* WalkUpper that stops at the first element not ordered before key:
\* comp(current->forward[i]->data, key).
RECURSIVE WalkUpper_Lower(_, _, _, _)
WalkUpper_Lower(st, current, i, key) ==
    LET nxt == Fwd(st, current, i) IN
    IF nxt = WILD THEN WILD
    ELSE IF nxt # NULL /\ comp(Data(st, nxt), key) THEN WalkUpper_Lower(st, nxt, i, key)
    ELSE current

\* while (current->forward[i] && !comp(key, current->forward[i]->data))
\*     current = current->forward[i];
RECURSIVE WalkUpper(_, _, _, _)
WalkUpper(st, current, i, key) ==
    LET nxt == Fwd(st, current, i) IN
    IF nxt = WILD THEN WILD
    ELSE IF nxt # NULL /\ ~comp(key, Data(st, nxt)) THEN WalkUpper(st, nxt, i, key)
    ELSE current

\* The iterations i = hi, hi - 1, ..., lo of upper_bound's
\* for (...; --i) { while ... }, the upper half of the levels before the
\* lower half.
RECURSIVE DescendUpperLevels(_, _, _, _, _)
DescendUpperLevels(st, current, hi, lo, key) ==
    IF hi < lo THEN current
    ELSE IF hi = lo THEN WalkUpper(st, current, hi, key)
    ELSE LET mid == (hi + lo + 1) \div 2
             half == DescendUpperLevels(st, current, hi, mid, key)
         IN IF half = WILD THEN WILD
            ELSE DescendUpperLevels(st, half, mid - 1, lo, key)

\* for (int i = level; i >= 0; --i) { while ... } of upper_bound
DescendUpper(st, current, i, key) == DescendUpperLevels(st, current, i, 0, key)

\* iterator upper_bound(const T& key)
upper_bound(st, c, key) ==
    iterator(Fwd(st, DescendUpper(st, st.header[c], st.level[c], key), 0), st.header[c])

\* equal_range as the pair of the two bounds, whether or not key is found.
equal_range_Bounds(st, c, key) ==
    <<lower_bound(st, c, key), upper_bound(st, c, key)>>

\* equal_range whose second cursor is the first one: no ++next.
equal_range_NoStep(st, c, key) ==
    LET it == find(st, c, key) IN <<it, it>>

\* std::pair<iterator, iterator> equal_range(const T& key)
equal_range(st, c, key) ==
    LET it == find(st, c, key) IN
    IF IterEq(it, end(st, c)) THEN <<it, it>>
    ELSE <<it, IterNext(st, it)>>

\* RaiseUpdate that starts one level too high: for (int i = level + 2; ...).
RaiseUpdate_Low(st, c, update, newLevel) ==
    [i \in DOMAIN update |->
        IF i > st.level[c] + 1 /\ i <= newLevel THEN st.header[c] ELSE update[i]]

\* if (newLevel > level) { for (int i = level + 1; i <= newLevel; ++i) update[i] = header; }
RaiseUpdate(st, c, update, newLevel) ==
    [i \in DOMAIN update |->
        IF i > st.level[c] /\ i <= newLevel THEN st.header[c] ELSE update[i]]

\* if (newLevel > level) { ...; level = newLevel; }
RaiseLevel(st, c, newLevel) ==
    IF newLevel > st.level[c] THEN [st EXCEPT !.level[c] = newLevel] ELSE st

\* Where the allocator looks first for a header node.
HeaderHint == 2 * NumVals + 2

\* Where the allocator looks first for the node of value in container c: the
\* nodes of the container whose header is slot 1 are looked for after it, the
\* nodes of another container after those.  The code never orders or reuses
\* addresses by their number, and states that differ by a renaming of the
\* slots behave alike: the model keeps one of them.
SlotHint(st, c, value) ==
    IF st.header[c] = 1 THEN 1 + value ELSE 1 + NumVals + value

\* AllocatorTraits::allocate(alloc, 1): the first free slot at or after hint,
\* going round the store.
NewSlot(st, hint) ==
    LET free == Slots \ st.allocated
        dist(n) == (n - hint) % NumSlots
    IN CHOOSE n \in free : \A m \in free : dist(n) <= dist(m)

\* Node* createNode(const T& value, int level), the node placed at slot n:
\* Node(value, level) : data(value), forward(level + 1, nullptr), backward(nullptr)
createNode(st, n, value, lvl) ==
    [st EXCEPT !.allocated = @ \cup {n},
               !.data[n] = value,
               !.forward[n] = [i \in 0..lvl |-> NULL],
               !.backward[n] = NULL]

\* The splice loop that runs at level 0 only and makes the new node its own
\* successor: newNode->forward[0] = newNode.
SpliceLevels_Cycle(st, newNode, update, i, newLevel) ==
    IF i > 0 THEN st
    ELSE LET s1 == SetFwd(st, newNode, 0, newNode)
         IN SetFwd(s1, UpdateAt(update, 0), 0, newNode)

\* The iterations i, i + 1, ..., newLevel of
\*     for (...; ++i) { newNode->forward[i] = update[i]->forward[i];
\*                      update[i]->forward[i] = newNode; }
\* the lower half of the levels before the upper half; an access out of range
\* ends the loop.
RECURSIVE SpliceLevels(_, _, _, _, _)
SpliceLevels(st, newNode, update, i, newLevel) ==
    IF i > newLevel THEN st
    ELSE IF i = newLevel
    THEN LET s1 == SetFwd(st, newNode, i, Fwd(st, UpdateAt(update, i), i))
         IN SetFwd(s1, UpdateAt(update, i), i, newNode)
    ELSE LET mid == (i + newLevel) \div 2
             half == SpliceLevels(st, newNode, update, i, mid)
         IN IF half.ub THEN half
            ELSE SpliceLevels(half, newNode, update, mid + 1, newLevel)

\* Splice that starts at level 1: for (int i = 1; i <= newLevel; ++i).
Splice_FromOne(st, newNode, update, i, newLevel) ==
    SpliceLevels(st, newNode, update, IF i = 0 THEN 1 ELSE i, newLevel)

\* for (int i = 0; i <= newLevel; ++i) {
\*     newNode->forward[i] = update[i]->forward[i];
\*     update[i]->forward[i] = newNode; }
Splice(st, newNode, update, i, newLevel) == SpliceLevels(st, newNode, update, i, newLevel)

\* LinkBackward that leaves the following node's backward link as it was.
LinkBackward_NoNext(st, c, newNode, update) ==
    LET s1 == SetBwd(st, newNode, UpdateAt(update, 0))
        nxt == Fwd(s1, newNode, 0)
    IN IF nxt # NULL THEN s1
       ELSE SetBwd(s1, st.header[c], newNode)

\* newNode->backward = update[0];
\* if (newNode->forward[0]) newNode->forward[0]->backward = newNode;
\* else header->backward = newNode;
LinkBackward(st, c, newNode, update) ==
    LET s1 == SetBwd(st, newNode, UpdateAt(update, 0))
        nxt == Fwd(s1, newNode, 0)
    IN IF nxt # NULL THEN SetBwd(s1, nxt, newNode)
       ELSE SetBwd(s1, st.header[c], newNode)

\* Found by equality of the payloads instead of equivalence.
Found_Equal(st, current, value) ==
    /\ current # NULL
    /\ Data(st, current) = value

\* if (current && !comp(current->data, value) && !comp(value, current->data))
Found(st, current, value) ==
    /\ current # NULL
    /\ ~comp(Data(st, current), value)
    /\ ~comp(value, Data(st, current))

\* insert without ++size_.
IncSize_None(st, c) == st

\* ++size_;
IncSize(st, c) == [st EXCEPT !.size_[c] = @ + 1]

\* std::pair<iterator, bool> insert(const T& value) and insert(T&& value);
\* heads is what the random source yields if randomLevel is called.
insert(st, c, value, heads) ==
    LET s == FillUpdate(st, st.header[c], st.level[c], value, NewUpdate)
        current == Fwd(st, s.current, 0)
    IN IF current = WILD
       THEN [st |-> [st EXCEPT !.ub = TRUE], first |-> end(st, c), second |-> FALSE]
       ELSE IF Found(st, current, value)
       THEN [st |-> st, first |-> iterator(current, st.header[c]), second |-> FALSE]
       ELSE LET newLevel == randomLevel(heads)
                update == IF newLevel > st.level[c]
                          THEN RaiseUpdate(st, c, s.update, newLevel)
                          ELSE s.update
                s1 == RaiseLevel(st, c, newLevel)
                newNode == NewSlot(s1, SlotHint(s1, c, value))
                s2 == createNode(s1, newNode, value, newLevel)
                s3 == Splice(s2, newNode, update, 0, newLevel)
                s4 == LinkBackward(s3, c, newNode, update)
                s5 == IncSize(s4, c)
            IN [st |-> s5, first |-> iterator(newNode, st.header[c]), second |-> TRUE]

\* insert(value) when createNode throws (the allocation fails, or the
\* construction of the node does and the node is deallocated again): the
\* steps of insert up to line 655, where the exception leaves the function.
insert_throw(st, c, value, heads) ==
    LET s == FillUpdate(st, st.header[c], st.level[c], value, NewUpdate)
        current == Fwd(st, s.current, 0)
    IN IF current = WILD
       THEN [st |-> [st EXCEPT !.ub = TRUE], thrown |-> FALSE]
       ELSE IF Found(st, current, value)
       THEN [st |-> st, thrown |-> FALSE]
       ELSE [st |-> RaiseLevel(st, c, randomLevel(heads)), thrown |-> TRUE]

\* void destroyNode(Node* node)
destroyNode(st, c, node) ==
    IF node # NULL /\ node # st.header[c]
    THEN IF node \in st.allocated
         THEN [st EXCEPT !.allocated = @ \ {node},
                         !.data[node] = 0,
                         !.forward[node] = <<>>,
                         !.backward[node] = NULL]
         ELSE [st EXCEPT !.ub = TRUE]
    ELSE st

\* The unlinking loop that runs its iteration of level 0 only.
UnlinkLevels_BaseOnly(st, current, update, i, top) ==
    IF i > 0 \/ top < 0 THEN st
    ELSE IF Fwd(st, UpdateAt(update, 0), 0) = current
         THEN SetFwd(st, UpdateAt(update, 0), 0, Fwd(st, current, 0))
         ELSE st

\* The iterations i, i + 1, ..., top of
\*     for (...; ++i)
\*         if (update[i]->forward[i] == current) update[i]->forward[i] = current->forward[i];
\* the lower half of the levels before the upper half; an access out of range
\* ends the loop.
RECURSIVE UnlinkLevels(_, _, _, _, _)
UnlinkLevels(st, current, update, i, top) ==
    IF i > top THEN st
    ELSE IF i = top
    THEN IF Fwd(st, UpdateAt(update, i), i) = current
         THEN SetFwd(st, UpdateAt(update, i), i, Fwd(st, current, i))
         ELSE IF Fwd(st, UpdateAt(update, i), i) = WILD
              THEN [st EXCEPT !.ub = TRUE]
              ELSE st
    ELSE LET mid == (i + top) \div 2
             half == UnlinkLevels(st, current, update, i, mid)
         IN IF half.ub THEN half
            ELSE UnlinkLevels(half, current, update, mid + 1, top)

\* Unlink that stops below the top level: for (int i = 0; i < level; ++i).
Unlink_SkipTop(st, c, current, update, i) ==
    UnlinkLevels(st, current, update, i, st.level[c] - 1)

\* for (int i = 0; i <= level; ++i)
\*     if (update[i]->forward[i] == current) update[i]->forward[i] = current->forward[i];
Unlink(st, c, current, update, i) == UnlinkLevels(st, current, update, i, st.level[c])

\* UnlinkBackward that gives the following node the header as predecessor.
UnlinkBackward_Header(st, c, current, next_node) ==
    IF next_node # NULL THEN SetBwd(st, next_node, st.header[c])
    ELSE SetBwd(st, st.header[c], Bwd(st, current))

\* Node* prev = current->backward;
\* if (next_node) next_node->backward = prev; else header->backward = prev;
UnlinkBackward(st, c, current, next_node) ==
    LET prev == Bwd(st, current) IN
    IF next_node # NULL THEN SetBwd(st, next_node, prev)
    ELSE SetBwd(st, st.header[c], prev)

\* The iterations of while (level > 0 && !header->forward[level]) --level;
\* that start with level above lo: first those above the middle of the
\* levels left, then, unless the loop has ended there, the others.
RECURSIVE ShrinkAbove(_, _, _)
ShrinkAbove(st, c, lo) ==
    IF st.level[c] <= lo THEN st
    ELSE IF st.level[c] = lo + 1
    THEN IF st.level[c] > 0 /\ Fwd(st, st.header[c], st.level[c]) = NULL
         THEN [st EXCEPT !.level[c] = @ - 1]
         ELSE st
    ELSE LET mid == (st.level[c] + lo + 1) \div 2
             half == ShrinkAbove(st, c, mid)
         IN IF half.level[c] > mid THEN half
            ELSE ShrinkAbove(half, c, lo)

\* while (level > 0 && !header->forward[level]) --level;
ShrinkLevel(st, c) == ShrinkAbove(st, c, 0)

\* erase without --size_.
DecSize_None(st, c) == st

\* The largest size_t.  It stands at the largest integer TLC represents; the
\* model only needs it to differ from every count of nodes.
SIZE_MAX == 2147483647

\* --size_;  (size_t: 0 wraps to the largest value)
DecSize(st, c) == [st EXCEPT !.size_[c] = IF @ = 0 THEN SIZE_MAX ELSE @ - 1]

\* The node before current taken for the node after it.
NextNode_Backward(st, current) == Bwd(st, current)

\* Node* next_node = current->forward[0];
NextNode(st, current) == Fwd(st, current, 0)

\* iterator erase(const_iterator pos)
erase(st, c, pos) ==
    IF IterEq(pos, end(st, c)) THEN [st |-> st, it |-> end(st, c)]
    ELSE IF pos.node \notin st.allocated
    THEN [st |-> [st EXCEPT !.ub = TRUE], it |-> end(st, c)]
    ELSE
    LET value == Data(st, pos.node)
        s == FillUpdate(st, st.header[c], st.level[c], value, NewUpdate)
        current == Fwd(st, s.current, 0)
    IN IF current = WILD
       THEN [st |-> [st EXCEPT !.ub = TRUE], it |-> end(st, c)]
       ELSE IF current = NULL \/ comp(Data(st, current), value)
                              \/ comp(value, Data(st, current))
       THEN [st |-> st, it |-> end(st, c)]
       ELSE LET next_node == NextNode(st, current)
                s1 == Unlink(st, c, current, s.update, 0)
                s2 == UnlinkBackward(s1, c, current, next_node)
                s3 == destroyNode(s2, c, current)
                s4 == ShrinkLevel(s3, c)
                s5 == DecSize(s4, c)
            IN [st |-> s5, it |-> iterator(next_node, st.header[c])]

\* while (first != last) { auto next = first; ++next; result = erase(first); first = next; }
RECURSIVE EraseLoop(_, _, _, _, _)
EraseLoop(st, c, first, last, result) ==
    IF IterEq(first, last) THEN [st |-> st, it |-> result]
    ELSE IF first.node = WILD THEN [st |-> [st EXCEPT !.ub = TRUE], it |-> result]
    ELSE LET next == IterNext(st, first)
             r == erase(st, c, first)
         IN EraseLoop(r.st, c, next, last, r.it)

\* erase(first, last) that erases the element at first only.
erase_range_One(st, c, first, last) ==
    IF IterEq(first, last) THEN [st |-> st, it |-> end(st, c)]
    ELSE erase(st, c, first)

\* erase(first, last) whose result starts as last: iterator result = last.
erase_range_Last(st, c, first, last) == EraseLoop(st, c, first, last, last)

\* iterator erase(const_iterator first, const_iterator last)
erase_range(st, c, first, last) == EraseLoop(st, c, first, last, end(st, c))

\* erase(key) without the test it != end().
erase_key_Always(st, c, key) ==
    [st |-> erase(st, c, find(st, c, key)).st, n |-> 1]

\* size_type erase(const T& key)
erase_key(st, c, key) ==
    LET it == find(st, c, key) IN
    IF it.node = WILD THEN [st |-> [st EXCEPT !.ub = TRUE], n |-> 0]
    ELSE IF ~IterEq(it, end(st, c)) THEN [st |-> erase(st, c, it).st, n |-> 1]
    ELSE [st |-> st, n |-> 0]

\* Node* current = header->forward[0];
\* while (current) { Node* next = current->forward[0]; destroyNode(current); current = next; }
RECURSIVE DestroyChain(_, _, _)
DestroyChain(st, c, current) ==
    IF current = NULL THEN st
    ELSE IF current = WILD THEN [st EXCEPT !.ub = TRUE]
    ELSE DestroyChain(destroyNode(st, c, current), c, Fwd(st, current, 0))

\* void clear()
clear(st, c) ==
    LET s1 == DestroyChain(st, c, Fwd(st, st.header[c], 0))
        h == st.header[c]
    IN [s1 EXCEPT !.forward[h] = [i \in 0..MAX_LEVEL |-> NULL],
                  !.backward[h] = NULL,
                  !.level[c] = 0,
                  !.size_[c] = 0]

\* header = AllocatorTraits::allocate(alloc, 1);
\* AllocatorTraits::construct(alloc, header, MAX_LEVEL);
\* Node(int level) : forward(level + 1, nullptr), backward(nullptr)
constructHeader(st, c) ==
    LET h == NewSlot(st, HeaderHint) IN
    [st EXCEPT !.allocated = @ \cup {h},
               !.data[h] = 0,
               !.forward[h] = [i \in 0..MAX_LEVEL |-> NULL],
               !.backward[h] = NULL,
               !.header[c] = h]

\* if (header) { AllocatorTraits::destroy(alloc, header);
\*               AllocatorTraits::deallocate(alloc, header, 1); }
destroyHeader(st, c) ==
    LET h == st.header[c] IN
    IF h = NULL THEN st
    ELSE IF h \notin st.allocated THEN [st EXCEPT !.ub = TRUE]
    ELSE [st EXCEPT !.allocated = @ \ {h},
                    !.data[h] = 0,
                    !.forward[h] = <<>>,
                    !.backward[h] = NULL]

\* template<class InputIt> void insert(InputIt first, InputIt last):
\* for (auto it = first; it != last; ++it) insert(*it);
\* hs[k] is what the random source yields in the k-th call of insert.
RECURSIVE InsertRange(_, _, _, _, _, _)
InsertRange(st, c, it, last, hs, k) ==
    IF IterEq(it, last) THEN st
    ELSE IF it.node \notin st.allocated \/ k \notin DOMAIN hs THEN [st EXCEPT !.ub = TRUE]
    ELSE LET s1 == insert(st, c, Data(st, it.node), hs[k]).st IN
         InsertRange(s1, c, IterNext(s1, it), last, hs, k + 1)

\* A copy that takes the header of other instead of copying the elements.
copy_construct_Shallow(st, c, other, hs) ==
    [st EXCEPT !.header[c] = st.header[other],
               !.level[c] = st.level[other],
               !.size_[c] = st.size_[other]]

\* jump_list(const jump_list& other)
copy_construct(st, c, other, hs) ==
    LET s0 == constructHeader([st EXCEPT !.level[c] = 0, !.size_[c] = 0], c) IN
    InsertRange(s0, c, begin(s0, other), end(s0, other), hs, 1)

\* jump_list& operator=(const jump_list& other)
copy_assign(st, c, other, hs) ==
    IF c # other
    THEN LET s1 == clear(st, c) IN
         InsertRange(s1, c, begin(s1, other), end(s1, other), hs, 1)
    ELSE st

\* The transfer of the move operations without a new header for other.
TakeFrom_Shared(st, c, other) ==
    [st EXCEPT !.header[c] = st.header[other],
               !.level[c] = st.level[other],
               !.size_[c] = st.size_[other],
               !.level[other] = 0,
               !.size_[other] = 0]

\* header(other.header), level(other.level), size_(other.size_);
\* other.header = allocate, construct(MAX_LEVEL); other.level = 0; other.size_ = 0;
TakeFrom(st, c, other) ==
    LET s1 == [st EXCEPT !.header[c] = st.header[other],
                         !.level[c] = st.level[other],
                         !.size_[c] = st.size_[other]]
        s2 == constructHeader(s1, other)
    IN [s2 EXCEPT !.level[other] = 0, !.size_[other] = 0]

\* jump_list(jump_list&& other) noexcept
move_construct(st, c, other) == TakeFrom(st, c, other)

\* jump_list& operator=(jump_list&& other) noexcept
move_assign(st, c, other) ==
    IF c # other
    THEN TakeFrom(destroyHeader(clear(st, c), c), c, other)
    ELSE st

\* std::equal that compares the payloads by the container's ordering.
RECURSIVE std_equal_Equivalent(_, _, _, _)
std_equal_Equivalent(st, first1, last1, first2) ==
    IF IterEq(first1, last1) THEN TRUE
    ELSE IF ~Equivalent(Data(st, first1.node), Data(st, first2.node)) THEN FALSE
    ELSE std_equal_Equivalent(st, IterNext(st, first1), last1, IterNext(st, first2))

\* std::equal(first1, last1, first2): the payloads compared with T's ==.
RECURSIVE std_equal(_, _, _, _)
std_equal(st, first1, last1, first2) ==
    IF IterEq(first1, last1) THEN TRUE
    ELSE IF Data(st, first1.node) # Data(st, first2.node) THEN FALSE
    ELSE std_equal(st, IterNext(st, first1), last1, IterNext(st, first2))

\* bool operator==(const jump_list& lhs, const jump_list& rhs)
operator_eq(st, lhs, rhs) ==
    /\ size(st, lhs) = size(st, rhs)
    /\ std_equal(st, begin(st, lhs), end(st, lhs), begin(st, rhs))

\* bool operator!=(const jump_list& lhs, const jump_list& rhs)
operator_ne(st, lhs, rhs) == ~operator_eq(st, lhs, rhs)

\* std::lexicographical_compare that orders the payloads by the container's
\* comparator.
RECURSIVE lexicographical_compare_Comp(_, _, _, _, _)
lexicographical_compare_Comp(st, first1, last1, first2, last2) ==
    IF IterEq(first1, last1) \/ IterEq(first2, last2)
    THEN IterEq(first1, last1) /\ ~IterEq(first2, last2)
    ELSE IF comp(Data(st, first1.node), Data(st, first2.node)) THEN TRUE
    ELSE IF comp(Data(st, first2.node), Data(st, first1.node)) THEN FALSE
    ELSE lexicographical_compare_Comp(st, IterNext(st, first1), last1,
                                      IterNext(st, first2), last2)

\* std::lexicographical_compare(first1, last1, first2, last2): the payloads
\* compared with T's <.
\* for (; first1 != last1 && first2 != last2; ++first1, ++first2) {
\*     if (*first1 < *first2) return true; if (*first2 < *first1) return false; }
\* return first1 == last1 && first2 != last2;
RECURSIVE lexicographical_compare(_, _, _, _, _)
lexicographical_compare(st, first1, last1, first2, last2) ==
    IF IterEq(first1, last1) \/ IterEq(first2, last2)
    THEN IterEq(first1, last1) /\ ~IterEq(first2, last2)
    ELSE IF Data(st, first1.node) < Data(st, first2.node) THEN TRUE
    ELSE IF Data(st, first2.node) < Data(st, first1.node) THEN FALSE
    ELSE lexicographical_compare(st, IterNext(st, first1), last1,
                                 IterNext(st, first2), last2)

\* bool operator<(const jump_list& lhs, const jump_list& rhs)
operator_lt(st, lhs, rhs) ==
    lexicographical_compare(st, begin(st, lhs), end(st, lhs), begin(st, rhs), end(st, rhs))

\* bool operator<=(const jump_list& lhs, const jump_list& rhs)
operator_le(st, lhs, rhs) == ~operator_lt(st, rhs, lhs)

\* bool operator>(const jump_list& lhs, const jump_list& rhs)
operator_gt(st, lhs, rhs) == operator_lt(st, rhs, lhs)

\* bool operator>=(const jump_list& lhs, const jump_list& rhs)
operator_ge(st, lhs, rhs) == ~operator_lt(st, lhs, rhs)

\* The nodes reached from n by forward[0] links, in order (at most fuel of them).
RECURSIVE ChainFrom(_, _, _)
ChainFrom(st, n, fuel) ==
    IF n = NULL \/ n = WILD \/ fuel = 0 THEN <<>>
    ELSE <<n>> \o ChainFrom(st, Fwd(st, n, 0), fuel - 1)

\* for (auto it = begin(); it != end(); ++it): the nodes the iteration visits.
Chain(st, c) == ChainFrom(st, Fwd(st, st.header[c], 0), NumSlots)

\* The payloads the iteration yields.
Elements(st, c) == [i \in 1..Len(Chain(st, c)) |-> Data(st, Chain(st, c)[i])]

\* The cursors a caller can hold on container c: one per element, and end().
Cursors(st, c) ==
    {iterator(Chain(st, c)[i], st.header[c]) : i \in 1..Len(Chain(st, c))}
        \cup {end(st, c)}

\* The cursor at position i of the iteration; position Len + 1 is end().
CursorAt(st, c, i) ==
    IF i \in 1..Len(Chain(st, c)) THEN iterator(Chain(st, c)[i], st.header[c])
    ELSE end(st, c)

\* The set of entries of seq.
Range(seq) == {seq[i] : i \in 1..Len(seq)}

\* The abstract set after insert(v).
AbsInsert(set, v) == IF \E e \in set : Equivalent(e, v) THEN set ELSE set \cup {v}

\* The abstract set after erase(k).
AbsErase(set, k) == {e \in set : ~Equivalent(e, k)}

NoRet == [op |-> "init", c |-> 0, other |-> 0, key |-> 0, first |-> NULL,
          last |-> NULL, node |-> NULL, n |-> 0]

\* The constructed containers.
Live == {c \in Conts : header[c] # NULL}

\* The program variables take the value of st.
Commit(st) ==
    /\ data' = st.data
    /\ forward' = st.forward
    /\ backward' = st.backward
    /\ allocated' = st.allocated
    /\ header' = st.header
    /\ level' = st.level
    /\ size_' = st.size_
    /\ ub' = st.ub

\* jump_list(): container 1 is constructed, its header at slot 1.
Init ==
    /\ data = [n \in Slots |-> 0]
    /\ forward = [n \in Slots |-> IF n = 1 THEN [i \in 0..MAX_LEVEL |-> NULL] ELSE <<>>]
    /\ backward = [n \in Slots |-> NULL]
    /\ allocated = {1}
    /\ header = [c \in Conts |-> IF c = 1 THEN 1 ELSE NULL]
    /\ level = [c \in Conts |-> 0]
    /\ size_ = [c \in Conts |-> 0]
    /\ ub = FALSE
    /\ ret = NoRet
    /\ S = [c \in Conts |-> {}]
    /\ net = [c \in Conts |-> 0]

\* c.insert(value)
Insert(c, value, heads) ==
    /\ ~ub
    /\ \E r \in {insert(State, c, value, heads)} :
       /\ Commit(r.st)
       /\ ret' = [NoRet EXCEPT !.op = "insert", !.c = c, !.key = value,
                               !.node = r.first.node,
                               !.n = IF r.second THEN 1 ELSE 0]
       /\ S' = [S EXCEPT ![c] = AbsInsert(@, value)]
       /\ net' = [net EXCEPT ![c] = @ + (IF r.second THEN 1 ELSE 0)]

\* c.insert(value), createNode throwing: the caller gets the exception.
InsertThrow(c, value, heads) ==
    /\ ~ub
    /\ \E r \in {insert_throw(State, c, value, heads)} :
       /\ r.thrown
       /\ Commit(r.st)
       /\ ret' = [NoRet EXCEPT !.op = "insert_throw", !.c = c, !.key = value]
       /\ UNCHANGED <<S, net>>

\* c.erase(key)
EraseKey(c, key) ==
    /\ ~ub
    /\ \E r \in {erase_key(State, c, key)} :
       /\ Commit(r.st)
       /\ ret' = [NoRet EXCEPT !.op = "erase_key", !.c = c, !.key = key, !.n = r.n]
       /\ S' = [S EXCEPT ![c] = AbsErase(@, key)]
       /\ net' = [net EXCEPT ![c] = @ - r.n]

\* c.erase(pos)
ErasePos(c, pos) ==
    /\ ~ub
    /\ \E r \in {erase(State, c, pos)} :
       /\ Commit(r.st)
       /\ ret' = [NoRet EXCEPT !.op = "erase_pos", !.c = c, !.first = pos.node,
                               !.node = r.it.node]
       /\ S' = [S EXCEPT ![c] = IF pos.node = NULL THEN @
                                ELSE AbsErase(@, Data(State, pos.node))]
       /\ net' = [net EXCEPT ![c] = IF Range(Chain(r.st, c)) = Range(Chain(State, c))
                                    THEN @ ELSE @ - 1]

\* c.erase(first, last), [first, last) the positions i..j-1 of the iteration
EraseRange(c, i, j) ==
    /\ ~ub
    /\ i <= j
    /\ \E first \in {CursorAt(State, c, i)}, last \in {CursorAt(State, c, j)} :
       \E r \in {erase_range(State, c, first, last)} :
       /\ Commit(r.st)
       /\ ret' = [NoRet EXCEPT !.op = "erase_range", !.c = c, !.first = first.node,
                               !.last = last.node, !.node = r.it.node,
                               !.n = j - i]
       /\ S' = [S EXCEPT ![c] = @ \ {Elements(State, c)[k] : k \in i..(j - 1)}]
       /\ net' = [net EXCEPT ![c] = @ - (j - i)]

\* c.clear()
Clear(c) ==
    /\ ~ub
    /\ \E st \in {clear(State, c)} : Commit(st)
    /\ ret' = [NoRet EXCEPT !.op = "clear", !.c = c]
    /\ S' = [S EXCEPT ![c] = {}]
    /\ net' = [net EXCEPT ![c] = 0]

Next ==
    \/ \E c \in Live, value \in Values, heads \in 0..MaxHeads : Insert(c, value, heads)
    \/ \E c \in Live, value \in Values, heads \in 0..MaxHeads : InsertThrow(c, value, heads)
    \/ \E c \in Live, key \in Values : EraseKey(c, key)
    \/ \E c \in Live : \E pos \in Cursors(State, c) : ErasePos(c, pos)
    \/ \E c \in Live : \E i, j \in 1..(Len(Chain(State, c)) + 1) : EraseRange(c, i, j)
    \/ \E c \in Live : Clear(c)

Spec == Init /\ [][Next]_vars

\* Runs of draws below P that end at once, just below the bound MAX_LEVEL of
\* randomLevel's loop, at it, and that would go on beyond it.
TallHeads == {0, MAX_LEVEL - 1, MAX_LEVEL, MAX_LEVEL + 1}

\* The payloads stored when the nodes reach the top level.
TallValues == 1..TallVals

\* One container whose nodes reach the top level.
NextTall ==
    \/ \E c \in Live, value \in TallValues, heads \in TallHeads : Insert(c, value, heads)
    \/ \E c \in Live, value \in TallValues, heads \in TallHeads : InsertThrow(c, value, heads)
    \/ \E c \in Live, key \in TallValues : EraseKey(c, key)
    \/ \E c \in Live : \E pos \in Cursors(State, c) : ErasePos(c, pos)
    \/ \E c \in Live : Clear(c)

SpecTall == Init /\ [][NextTall]_vars

\* jump_list c(other)
CopyConstruct(c, other, hs) ==
    /\ ~ub
    /\ header[c] = NULL
    /\ \E st \in {copy_construct(State, c, other, hs)} :
       /\ Commit(st)
       /\ net' = [net EXCEPT ![c] = st.size_[c]]
    /\ ret' = [NoRet EXCEPT !.op = "copy_construct", !.c = c, !.other = other]
    /\ S' = [S EXCEPT ![c] = S[other]]

\* c = other
CopyAssign(c, other, hs) ==
    /\ ~ub
    /\ \E st \in {copy_assign(State, c, other, hs)} :
       /\ Commit(st)
       /\ net' = [net EXCEPT ![c] = st.size_[c]]
    /\ ret' = [NoRet EXCEPT !.op = "copy_assign", !.c = c, !.other = other]
    /\ S' = [S EXCEPT ![c] = S[other]]

\* jump_list c(std::move(other))
MoveConstruct(c, other) ==
    /\ ~ub
    /\ header[c] = NULL
    /\ \E st \in {move_construct(State, c, other)} : Commit(st)
    /\ ret' = [NoRet EXCEPT !.op = "move_construct", !.c = c, !.other = other]
    /\ S' = [S EXCEPT ![c] = S[other], ![other] = {}]
    /\ net' = [net EXCEPT ![c] = net[other], ![other] = 0]

\* c = std::move(other)
MoveAssign(c, other) ==
    /\ ~ub
    /\ \E st \in {move_assign(State, c, other)} : Commit(st)
    /\ ret' = [NoRet EXCEPT !.op = "move_assign", !.c = c, !.other = other]
    /\ S' = IF c = other THEN S ELSE [S EXCEPT ![c] = S[other], ![other] = {}]
    /\ net' = IF c = other THEN net ELSE [net EXCEPT ![c] = net[other], ![other] = 0]

\* The payloads used where two containers act on each other: 2 and 3 are
\* equivalent under comp and are different payloads.
Values2 == 2..TwoVals

\* The cursors a caller can hold on container c, and the cursors to the
\* elements of the other containers.
AllCursors(st, c) ==
    Cursors(st, c) \cup
    UNION {Cursors(st, d) \ {end(st, d)} : d \in {e \in Conts \ {c} : st.header[e] # NULL}}

\* The random levels of the inserts of a range insert into c from other.
HeadsFor(c, other) ==
    IF c = other THEN {<<>>}
    ELSE [1..Len(Chain(State, other)) -> 0..TwoHeads]

\* Two containers: the second is made from the first by copy or by move, and
\* from then on both are inserted into, erased from, cleared and assigned.
NextTwo ==
    \/ \E c \in Live, value \in Values2, heads \in 0..TwoHeads : Insert(c, value, heads)
    \/ \E c \in Live : \E pos \in AllCursors(State, c) : ErasePos(c, pos)
    \/ \E c \in Live : Clear(c)
    \/ \E c \in Conts \ Live, other \in Live :
          \E hs \in HeadsFor(c, other) : CopyConstruct(c, other, hs)
    \/ \E c \in Live, other \in Live :
          \E hs \in HeadsFor(c, other) : CopyAssign(c, other, hs)
    \/ \E c \in Conts \ Live, other \in Live : MoveConstruct(c, other)
    \/ \E c \in Live, other \in Live : MoveAssign(c, other)

SpecTwo == Init /\ [][NextTwo]_vars

----------------------------------------------------------------------------
(* Properties *)

\* seq without its i-th entry.
RemoveAt(seq, i) ==
    [k \in 1..(Len(seq) - 1) |-> IF k < i THEN seq[k] ELSE seq[k + 1]]

\* The positions of the iteration of c whose element is equivalent to k.
Matches(st, c, k) ==
    {i \in 1..Len(Chain(st, c)) : Equivalent(Elements(st, c)[i], k)}

\* The program state after the step.
Post == State'

\* No operation has left the defined behaviour of the program.
NoUB == ~ub

\* C1: the level-0 chain from header.forward[0] is strictly ascending under
\* the comparator: comp(a, b) for every adjacent pair (a, b), and no two
\* stored elements are equivalent.
C1_Sorted ==
    \A c \in Live :
        LET e == Elements(State, c) IN
        /\ \A i \in 1..(Len(e) - 1) : comp(e[i], e[i + 1])
        /\ \A i, j \in 1..Len(e) : i # j => ~Equivalent(e[i], e[j])

\* An insert has put a new element between two others.
C1_Witness ==
    /\ ret.op = "insert" /\ ret.n = 1
    /\ Len(Chain(State, 1)) = 3
    /\ ret.node = Chain(State, 1)[2]

\* C2: after every operation the iteration begin()..end() yields exactly the
\* elements of the abstract set S, each once, in ascending order.
C2_Refines ==
    \A c \in Live :
        LET e == Elements(State, c) IN
        /\ Range(e) = S[c]
        /\ Len(e) = Cardinality(S[c])
        /\ \A i, j \in 1..Len(e) : i < j => comp(e[i], e[j])

\* An erase by key has removed one of three elements.
C2_Witness ==
    /\ ret.op = "erase_key" /\ ret.n = 1
    /\ Cardinality(S[1]) = 2
    /\ Len(Chain(State, 1)) = 2

\* C3: size() is the number of nodes reached from header.forward[0], and
\* empty() is true exactly when header.forward[0] is null.
C3_SizeIsCount ==
    \A c \in Live :
        /\ size(State, c) = Len(Chain(State, c))
        /\ empty(State, c) <=> (Fwd(State, header[c], 0) = NULL)

\* An erase by position has left two elements.
C3_Witness ==
    /\ ret.op = "erase_pos" /\ ret.first # NULL
    /\ size(State, 1) = 2

\* C4: size() is the number of insertions that returned inserted = true minus
\* the number of erasures that removed an element.
C4_SizeLaw == \A c \in Live : size(State, c) = net[c]

\* A range erase has removed two elements and left one.
C4_Witness ==
    /\ ret.op = "erase_range"
    /\ ret.first # ret.last
    /\ net[1] = 1
    /\ size(State, 1) = 1

\* C5: insert(v) with an equivalent element stored changes nothing: it
\* returns inserted = false and a cursor to the stored element; size, level,
\* every link and every payload are as before.
C5_InsertDuplicate ==
    [][\A c \in Live :
        (ret'.op = "insert" /\ ret'.c = c /\ Matches(State, c, ret'.key) # {})
        => /\ ret'.n = 0
           /\ \E i \in Matches(State, c, ret'.key) : ret'.node = Chain(State, c)[i]
           /\ UNCHANGED <<data, forward, backward, allocated, header, level, size_>>
      ]_vars

\* An insert of a value equivalent to, and different from, a stored payload
\* was refused.
C5_Witness ==
    /\ ret.op = "insert" /\ ret.n = 0
    /\ ret.node \in allocated
    /\ data[ret.node] # ret.key
    /\ size(State, 1) >= 2

\* C6: find(k) is a cursor to the one stored element equivalent to k, or
\* end() when there is none; count(k) = 1 and contains(k) exactly when
\* find(k) # end().
C6_Find ==
    \A c \in Live : \A k \in Values :
        LET f == find(State, c, k)
            m == Matches(State, c, k)
        IN /\ Cardinality(m) <= 1
           /\ (m # {}) => \A i \in m : f = iterator(Chain(State, c)[i], header[c])
           /\ (m = {}) => f = end(State, c)
           /\ count(State, c, k) = (IF ~IterEq(f, end(State, c)) THEN 1 ELSE 0)
           /\ contains(State, c, k) <=> ~IterEq(f, end(State, c))
           /\ count(State, c, k) = Cardinality(m)

\* A container of several levels where one key is found and another is not.
C6_Witness ==
    /\ level[1] >= 1
    /\ size(State, 1) >= 2
    /\ \E k \in Values : find(State, 1, k) = end(State, 1)
    /\ \E k \in Values : /\ find(State, 1, k).node = Chain(State, 1)[2]
                         /\ data[Chain(State, 1)[2]] # k

\* C7: after erase(k) returns 1, find(k) = end(), contains(k) is false, size
\* is one less, and the other elements are still found, in the same order.
C7_EraseKey ==
    [][\A c \in Live :
        (ret'.op = "erase_key" /\ ret'.c = c /\ ret'.n = 1)
        => /\ find(Post, c, ret'.key) = end(Post, c)
           /\ ~contains(Post, c, ret'.key)
           /\ size(Post, c) = size(State, c) - 1
           /\ \E i \in Matches(State, c, ret'.key) :
                 /\ Chain(Post, c) = RemoveAt(Chain(State, c), i)
                 /\ Elements(Post, c) = RemoveAt(Elements(State, c), i)
           /\ \A e \in Range(Elements(State, c)) :
                 ~Equivalent(e, ret'.key) => contains(Post, c, e)
      ]_vars

\* An erase by key has removed the middle element of three.
C7_Witness ==
    /\ ret.op = "erase_key" /\ ret.n = 1
    /\ Len(Chain(State, 1)) = 2
    /\ comp(Elements(State, 1)[1], ret.key)
    /\ comp(ret.key, Elements(State, 1)[2])

\* C8: erase(k) returns 0 or 1; with no element equivalent to k stored it
\* returns 0 and changes nothing; called twice in a row it returns 0 the
\* second time.
C8_EraseAbsent ==
    [][\A c \in Live :
        (ret'.op = "erase_key" /\ ret'.c = c)
        => /\ ret'.n \in {0, 1}
           /\ (Matches(State, c, ret'.key) = {})
                 => /\ ret'.n = 0
                    /\ UNCHANGED <<data, forward, backward, allocated, header,
                                   level, size_>>
           /\ (ret.op = "erase_key" /\ ret.c = c /\ ret.key = ret'.key)
                 => ret'.n = 0
      ]_vars

\* An erase of an absent key on a container that holds elements on several
\* levels.
C8_Witness ==
    /\ ret.op = "erase_key" /\ ret.n = 0
    /\ size(State, 1) >= 1
    /\ level[1] >= 1

\* C9: erase(pos), pos a cursor to the stored element x, removes exactly x
\* and returns a cursor to the element that followed x, or end() when x was
\* the last.
C9_ErasePos ==
    [][\A c \in Live :
        (ret'.op = "erase_pos" /\ ret'.c = c /\ ret'.first # NULL)
        => \E i \in 1..Len(Chain(State, c)) :
              /\ Chain(State, c)[i] = ret'.first
              /\ Chain(Post, c) = RemoveAt(Chain(State, c), i)
              /\ Elements(Post, c) = RemoveAt(Elements(State, c), i)
              /\ ret'.first \notin allocated'
              /\ ret'.node = IF i < Len(Chain(State, c))
                             THEN Chain(State, c)[i + 1] ELSE NULL
      ]_vars

\* An erase by position has removed an element below the top level, which
\* another element still holds, and returned its follower.
C9_Witness ==
    /\ ret.op = "erase_pos" /\ ret.first # NULL
    /\ ret.node # NULL
    /\ level[1] >= 1
    /\ Len(Chain(State, 1)) = 2
    /\ ret.node = Chain(State, 1)[2]

\* C10: lower_bound(k) is a cursor to the first element of the iteration not
\* ordered before k, or end() when every element is ordered before k.
C10_LowerBound ==
    \A c \in Live : \A k \in Values :
        LET lb == lower_bound(State, c, k)
            e == Elements(State, c)
            ge == {i \in 1..Len(e) : ~comp(e[i], k)}
        IN /\ lb.header = header[c]
           /\ (ge = {}) => lb = end(State, c)
           /\ (ge # {}) => \E i \in ge : /\ \A j \in ge : i <= j
                                         /\ lb.node = Chain(State, c)[i]

\* Several levels; some key has its lower bound at a greater element, some
\* key at an equivalent element of another payload, and some key at end().
C10_Witness ==
    /\ level[1] >= 1
    /\ size(State, 1) >= 1
    /\ \E k \in Values : lower_bound(State, 1, k) = end(State, 1)
    /\ \E k \in Values : LET n == lower_bound(State, 1, k).node IN
                         n \in allocated /\ comp(k, data[n])
    /\ \E k \in Values : LET n == lower_bound(State, 1, k).node IN
                         n \in allocated /\ Equivalent(k, data[n]) /\ k # data[n]

\* The number of ++ steps that take the cursor first to the cursor last (at
\* most fuel of them; -1 when last is not met).
RECURSIVE RangeLen(_, _, _, _)
RangeLen(st, first, last, fuel) ==
    IF IterEq(first, last) THEN 0
    ELSE IF fuel = 0 \/ first.node \notin st.allocated THEN -1
    ELSE LET r == RangeLen(st, IterNext(st, first), last, fuel - 1) IN
         IF r = -1 THEN -1 ELSE r + 1

\* C11: upper_bound(k) is a cursor to the first element of the iteration that
\* k is ordered strictly before, or end() when there is none; when an element
\* equivalent to k is stored, upper_bound(k) is the successor of the element
\* lower_bound(k) references.
C11_UpperBound ==
    \A c \in Live : \A k \in Values :
        LET up == upper_bound(State, c, k)
            e == Elements(State, c)
            gt == {i \in 1..Len(e) : comp(k, e[i])}
        IN /\ up.header = header[c]
           /\ (gt = {}) => up = end(State, c)
           /\ (gt # {}) => \E i \in gt : /\ \A j \in gt : i <= j
                                         /\ up.node = Chain(State, c)[i]
           /\ (Matches(State, c, k) # {})
                 => up = IterNext(State, lower_bound(State, c, k))

\* Several levels; some stored key has an element as its upper bound, some
\* stored key has end(), and some absent key has the same element as lower
\* and upper bound.
C11_Witness ==
    /\ level[1] >= 1
    /\ \E k \in Values : /\ Matches(State, 1, k) # {}
                         /\ upper_bound(State, 1, k).node \in allocated
    /\ \E k \in Values : /\ Matches(State, 1, k) # {}
                         /\ upper_bound(State, 1, k) = end(State, 1)
    /\ \E k \in Values : /\ Matches(State, 1, k) = {}
                         /\ upper_bound(State, 1, k).node \in allocated
                         /\ upper_bound(State, 1, k) = lower_bound(State, 1, k)

\* C12 as stated: for every key k, stored or not, equal_range(k) is the pair
\* (lower_bound(k), upper_bound(k)).
C12_Original ==
    \A c \in Live : \A k \in Values :
        equal_range(State, c, k)
            = <<lower_bound(State, c, k), upper_bound(State, c, k)>>

\* C12: for a key k that is stored, equal_range(k) is the pair
\* (lower_bound(k), upper_bound(k)) and the half-open range holds exactly one
\* element; for a key that is absent the two cursors are equal and the range
\* holds none.
C12_EqualRange ==
    \A c \in Live : \A k \in Values :
        LET er == equal_range(State, c, k) IN
        IF Matches(State, c, k) # {}
        THEN /\ er = <<lower_bound(State, c, k), upper_bound(State, c, k)>>
             /\ RangeLen(State, er[1], er[2], NumSlots) = 1
             /\ Equivalent(Data(State, er[1].node), k)
        ELSE /\ IterEq(er[1], er[2])
             /\ RangeLen(State, er[1], er[2], NumSlots) = 0

\* A stored key whose range ends at an element, a stored key whose range ends
\* at end(), and an absent key with a greater element stored.
C12_Witness ==
    /\ \E k \in Values : /\ Matches(State, 1, k) # {}
                         /\ equal_range(State, 1, k)[2].node \in allocated
    /\ \E k \in Values : /\ Matches(State, 1, k) # {}
                         /\ equal_range(State, 1, k)[2] = end(State, 1)
    /\ \E k \in Values : /\ Matches(State, 1, k) = {}
                         /\ lower_bound(State, 1, k).node \in allocated

\* C13: for every key k with no equivalent element stored, both cursors of
\* equal_range(k) are end(), wherever k would sort.
C13_EqualRangeAbsent ==
    \A c \in Live : \A k \in Values :
        (Matches(State, c, k) = {})
            => /\ equal_range(State, c, k)[1] = end(State, c)
               /\ equal_range(State, c, k)[2] = end(State, c)

\* An absent key below every element, one between two elements and one above
\* every element.
C13_Witness ==
    /\ size(State, 1) >= 1
    /\ \E k \in Values : /\ Matches(State, 1, k) = {}
                         /\ \A i \in 1..Len(Chain(State, 1)) :
                               comp(k, Elements(State, 1)[i])
    /\ \E k \in Values : /\ Matches(State, 1, k) = {}
                         /\ \A i \in 1..Len(Chain(State, 1)) :
                               comp(Elements(State, 1)[i], k)

\* level is the smallest value with header.forward[i] = null for all i > level.
LevelMinimal(st, c) ==
    /\ \A i \in (st.level[c] + 1)..MAX_LEVEL : Fwd(st, st.header[c], i) = NULL
    /\ st.level[c] > 0 => Fwd(st, st.header[c], st.level[c]) # NULL

\* C14: when node creation fails inside insert the operation is all or
\* nothing: no node has been added, size, level and every link are as before
\* the call, and level is still the smallest value above which every forward
\* slot of the header is null.
C14_AllOrNothing ==
    [][\A c \in Live :
        (ret'.op = "insert_throw" /\ ret'.c = c)
        => /\ UNCHANGED <<data, forward, backward, allocated, header, level, size_>>
           /\ LevelMinimal(Post, c)
      ]_vars

\* seq in reverse order.
Reverse(seq) == [i \in 1..Len(seq) |-> seq[Len(seq) + 1 - i]]

\* The nodes n applications of -- visit, starting from the cursor it.
RECURSIVE BackwardWalk(_, _, _)
BackwardWalk(st, it, n) ==
    IF n = 0 THEN <<>>
    ELSE LET p == IterPrev(st, it) IN <<p.node>> \o BackwardWalk(st, p, n - 1)

\* C16: the backward links mirror the level-0 chain.  In a non-empty
\* container the first node is the only node whose backward is the header,
\* every other node's backward is its level-0 predecessor, and
\* header.backward is the last node; so --end() is the last element and
\* stepping backward from end() visits the elements in reverse order.
C16_Backward ==
    \A c \in Live :
        LET ch == Chain(State, c) IN
        Len(ch) >= 1 =>
            /\ Bwd(State, ch[1]) = header[c]
            /\ \A i \in 2..Len(ch) : Bwd(State, ch[i]) = ch[i - 1]
            /\ \A i \in 2..Len(ch) : Bwd(State, ch[i]) # header[c]
            /\ Bwd(State, header[c]) = ch[Len(ch)]
            /\ IterPrev(State, end(State, c)) = iterator(ch[Len(ch)], header[c])
            /\ BackwardWalk(State, end(State, c), Len(ch)) = Reverse(ch)

\* An erase by position has removed the last of three elements: the header's
\* backward link has moved to the element before it.
C16_Witness ==
    /\ ret.op = "erase_pos" /\ ret.first # NULL /\ ret.node = NULL
    /\ Len(Chain(State, 1)) = 2
    /\ backward[header[1]] = Chain(State, 1)[2]
    /\ level[1] >= 1

\* The position of node n in the sequence seq (0: none).
IndexOf(seq, n) ==
    IF \E i \in 1..Len(seq) : seq[i] = n
    THEN CHOOSE i \in 1..Len(seq) : seq[i] = n
    ELSE 0

\* The nodes the call recorded in r is to remove from container c in state st.
Targets(st, c, r) ==
    IF r.op = "erase_pos" THEN {r.first}
    ELSE IF r.op = "erase_key"
    THEN {Chain(st, c)[i] : i \in Matches(st, c, r.key)}
    ELSE {}

\* C17: a cursor to the element x stays valid across an insert of another
\* key and an erase of another element: it still references a node of the
\* container with the same payload, ++ yields x's level-0 successor and --
\* its predecessor in the container as it is after the call; insert and
\* erase change no node's payload.
C17_CursorStable ==
    [][\A c \in Live :
        (ret'.c = c /\ ret'.op \in {"insert", "insert_throw", "erase_key", "erase_pos"})
        => /\ \A n \in allocated \cap allocated' : data'[n] = data[n]
           /\ \E pre \in {Chain(State, c)}, post \in {Post},
                 gone \in {Targets(State, c, ret')} :
              \E ch \in {Chain(post, c)} :
                 \A k \in 1..Len(pre) :
                    pre[k] \notin gone =>
                       \E i \in {IndexOf(ch, pre[k])}, it \in {iterator(pre[k], header[c])} :
                          /\ pre[k] \in allocated'
                          /\ i # 0
                          /\ Data(post, it.node) = data[pre[k]]
                          /\ IterNext(post, it).node
                                = (IF i < Len(ch) THEN ch[i + 1] ELSE NULL)
                          /\ IterPrev(post, it).node
                                = (IF i > 1 THEN ch[i - 1] ELSE header[c])
      ]_vars

\* An insert has put a new element between two elements that were neighbours.
C17_Witness ==
    /\ ret.op = "insert" /\ ret.n = 1
    /\ Len(Chain(State, 1)) = 3
    /\ ret.node = Chain(State, 1)[2]
    /\ level[1] >= 1

\* The step has left container d as it was: its header, level and size, the
\* nodes of its chain and every field of them.
Untouched(d) ==
    /\ header'[d] = header[d]
    /\ level'[d] = level[d]
    /\ size_'[d] = size_[d]
    /\ \E post \in {Post}, pre \in {Chain(State, d)} :
          /\ Chain(post, d) = pre
          /\ \A n \in Range(pre) \cup {header[d]} :
                /\ n \in allocated'
                /\ data'[n] = data[n]
                /\ forward'[n] = forward[n]
                /\ backward'[n] = backward[n]

\* Container c of st is as a newly constructed one: size 0, level 0,
\* begin() = end(), and a header whose forward slots are all null.
AsNew(st, c) ==
    /\ size(st, c) = 0
    /\ st.level[c] = 0
    /\ IterEq(begin(st, c), end(st, c))
    /\ st.header[c] \in st.allocated
    /\ st.forward[st.header[c]] = [i \in 0..MAX_LEVEL |-> NULL]
    /\ st.backward[st.header[c]] = NULL
    /\ \A k \in Values2 : find(st, c, k) = end(st, c)

\* C15: erase(pos) with the end cursor, or with a cursor to an element of
\* another container, is a no-op: sequence, size, level and links are
\* unchanged and end() is returned.
C15_EraseNotOwn ==
    [][\A c \in Live :
        (ret'.op = "erase_pos" /\ ret'.c = c /\ ret'.first \notin Range(Chain(State, c)))
        => /\ UNCHANGED <<data, forward, backward, allocated, header, level, size_>>
           /\ ret'.node = NULL
           /\ ~ub'
      ]_vars

FirstDiff(a, b, differ(_, _)) ==
    LET m == IF Len(a) < Len(b) THEN Len(a) ELSE Len(b)
        d == {i \in 1..m : differ(a[i], b[i])}
    IN IF d = {} THEN 0 ELSE CHOOSE i \in d : \A j \in d : i <= j

\* a is lexicographically before b: at the first position where they differ
\* a's element is before(x, y) b's, or a is a strict prefix of b.
LexLess(a, b, differ(_, _), before(_, _)) ==
    LET i == FirstDiff(a, b, differ) IN
    IF i # 0 THEN before(a[i], b[i]) ELSE Len(a) < Len(b)

\* x and y are not equivalent under the comparator.
NotEquivalent(x, y) == ~Equivalent(x, y)

\* x and y are different payloads.
NotEqual(x, y) == x # y

\* T's operator< on the payloads.
PayloadLess(x, y) == x < y

RemoveRange(seq, i, j) ==
    [k \in 1..(Len(seq) - (j - i)) |-> IF k < i THEN seq[k] ELSE seq[k + (j - i)]]

\* The position a cursor on node n has in the iteration seq; end() is one
\* past the last.
PositionOf(seq, n) == IF n = NULL THEN Len(seq) + 1 ELSE IndexOf(seq, n)

\* C22: erase(first, last) on a valid, non-empty range removes exactly the
\* elements of the range and leaves the others in their order, decreases
\* size by the length of the range, frees exactly the erased nodes and
\* returns a cursor equal to last.
C22_EraseRange ==
    [][\A c \in Live :
        (ret'.op = "erase_range" /\ ret'.c = c /\ ret'.first # ret'.last)
        => \E post \in {Post}, pre \in {Chain(State, c)} :
           \E i \in {PositionOf(pre, ret'.first)}, j \in {PositionOf(pre, ret'.last)} :
              /\ 1 <= i /\ i < j
              /\ Chain(post, c) = RemoveRange(pre, i, j)
              /\ Elements(post, c) = RemoveRange(Elements(State, c), i, j)
              /\ size(post, c) = size(State, c) - (j - i)
              /\ size(post, c) = Len(Chain(post, c))
              /\ allocated' = allocated \ {pre[k] : k \in i..(j - 1)}
              /\ IterEq(iterator(ret'.node, header[c]), iterator(ret'.last, header[c]))
              /\ ~ub'
      ]_vars

\* erase(first, last) has removed two elements from the middle of the
\* iteration and returned the cursor on the element that followed them.
C22_Witness ==
    /\ ret.op = "erase_range"
    /\ ret.n = 2
    /\ ret.last # NULL
    /\ ret.node = ret.last
    /\ size(State, 1) = 1
    /\ Chain(State, 1) = <<ret.last>>
    /\ ret.first \notin allocated

\* C30: erase(first, last) with first == last erases nothing, leaves the
\* container as it was and returns end(), which is not a cursor equal to
\* last unless last is end().
C30_EraseEmptyRange ==
    [][\A c \in Live :
        (ret'.op = "erase_range" /\ ret'.c = c /\ ret'.first = ret'.last)
        => /\ UNCHANGED <<data, forward, backward, allocated, header, level, size_>>
           /\ IterEq(iterator(ret'.node, header[c]), end(State, c))
           /\ ~ub'
      ]_vars

\* erase(first, last) was called with first == last on an element and has
\* returned end(), a cursor different from last.
C30_Witness ==
    /\ ret.op = "erase_range"
    /\ ret.first = ret.last
    /\ ret.last # NULL
    /\ ret.last \in Range(Chain(State, 1))
    /\ ret.node = NULL
    /\ ~IterEq(iterator(ret.node, header[1]), iterator(ret.last, header[1]))

\* The number of forward slots of node n, less one.
NodeLevel(st, n) == Cardinality(DOMAIN st.forward[n]) - 1

\* Every level is within [0, MAX_LEVEL]: the container's, and each stored
\* node's, whose forward array is indexed 0..level; the header has
\* MAX_LEVEL + 1 forward slots.
LevelsInRange(st) ==
    \A c \in {d \in Conts : st.header[d] # NULL} :
        /\ st.level[c] \in 0..MAX_LEVEL
        /\ DOMAIN st.forward[st.header[c]] = 0..MAX_LEVEL
        /\ \A n \in Range(Chain(st, c)) :
              /\ NodeLevel(st, n) \in 0..MAX_LEVEL
              /\ DOMAIN st.forward[n] = 0..NodeLevel(st, n)

\* C24: every node insert creates has a level in [0, MAX_LEVEL] that the
\* level generator chose, and a forward array of exactly level + 1 slots
\* whose size never changes while the node lives; the container's level is
\* always in [0, MAX_LEVEL] and the header always has MAX_LEVEL + 1 slots.
C24_Levels ==
    [][/\ LevelsInRange(State)
       /\ LevelsInRange(Post)
       /\ \A n \in allocated \cap allocated' : DOMAIN forward'[n] = DOMAIN forward[n]
       /\ (ret'.op = "insert" /\ ret'.n = 1)
            => /\ ret'.node \in allocated' \ allocated
               /\ \E heads \in TallHeads :
                     DOMAIN forward'[ret'.node] = 0..randomLevel(heads)
      ]_vars

\* An insert has created a node of level MAX_LEVEL next to a node of level 0.
C24_Witness ==
    /\ ret.op = "insert"
    /\ ret.n = 1
    /\ NodeLevel(State, ret.node) = MAX_LEVEL
    /\ level[1] = MAX_LEVEL
    /\ \E n \in Range(Chain(State, 1)) : NodeLevel(State, n) = 0

\* The entries 0..top of the trail update are nodes that have a forward
\* slot at the entry's level.
TrailWritten(st, update, top) ==
    \A i \in 0..top :
        /\ i \in DOMAIN update
        /\ update[i] \in st.allocated
        /\ i \in DOMAIN st.forward[update[i]]

\* C29: no operation indexes a forward array or the update trail out of
\* range: no step runs into undefined behaviour, every lookup ends on a node
\* or on end(), and every trail entry that erase (levels 0..level) or insert
\* (levels 0..newLevel, the entries above level set to the header) reads was
\* written in that call with a node that has a forward slot at that level.
C29_IndexSafe ==
    /\ ~ub
    /\ \A c \in Live : \A key \in TallValues :
          /\ find(State, c, key).node # WILD
          /\ upper_bound(State, c, key).node # WILD
          /\ \E trail \in {FillUpdate(State, header[c], level[c], key, NewUpdate).update} :
                /\ TrailWritten(State, trail, level[c])
                /\ \A newLevel \in {randomLevel(heads) : heads \in TallHeads} :
                      TrailWritten(State,
                                   IF newLevel > level[c]
                                   THEN RaiseUpdate(State, c, trail, newLevel)
                                   ELSE trail,
                                   newLevel)

\* An erase has unlinked the first of two nodes of level MAX_LEVEL: the
\* top level stays MAX_LEVEL and the header links to the other node on
\* every level.
C29_Witness ==
    /\ ret.op \in {"erase_pos", "erase_key"}
    /\ level[1] = MAX_LEVEL
    /\ size(State, 1) = 1
    /\ net[1] = 1
    /\ NodeLevel(State, Chain(State, 1)[1]) = MAX_LEVEL
    /\ Data(State, Chain(State, 1)[1]) > 1
    /\ \A i \in 0..MAX_LEVEL : Fwd(State, header[1], i) = Chain(State, 1)[1]

\* C23: whenever a container is empty its size is 0, begin() equals end(),
\* its level is 0, every forward slot of the header is null and the header's
\* backward link is null or the header itself.
C23_EmptyState ==
    \A c \in Live :
        Chain(State, c) = <<>>
        => /\ size(State, c) = 0
           /\ empty(State, c)
           /\ IterEq(begin(State, c), end(State, c))
           /\ level[c] = 0
           /\ \A i \in 0..MAX_LEVEL : Fwd(State, header[c], i) = NULL
           /\ Bwd(State, header[c]) \in {NULL, header[c]}

\* C27: header.forward[i] is null for every i above level, and level is the
\* smallest such value: it is 0 or header.forward[level] is a node.
C27_LevelMinimal == \A c \in Live : LevelMinimal(State, c)

\* The nodes reached from n by forward[i] links, in order (at most fuel of them).
RECURSIVE LevelChainFrom(_, _, _, _)
LevelChainFrom(st, n, i, fuel) ==
    IF n = NULL \/ n = WILD \/ fuel = 0 THEN <<>>
    ELSE <<n>> \o LevelChainFrom(st, Fwd(st, n, i), i, fuel - 1)

\* The chain of level i of container c.
LevelChain(st, c, i) == LevelChainFrom(st, Fwd(st, st.header[c], i), i, NumSlots)

\* The entries of seq that are nodes of level i or more, in order.
AtLeast(st, seq, i) ==
    LET Tall(n) == NodeLevel(st, n) >= i IN SelectSeq(seq, Tall)

\* C26: for every level i > 0 the chain of level i is the chain of level
\* i - 1 restricted to the nodes whose own level is at least i, in the same
\* order; and every forward link of the header and of a stored node is null
\* or a stored node, so no level links to a destroyed node.
C26_Towers ==
    \A c \in Live :
        /\ LevelChain(State, c, 0) = Chain(State, c)
        /\ \A i \in 1..MAX_LEVEL :
              \E lower \in {LevelChain(State, c, i - 1)} :
                 LevelChain(State, c, i) = AtLeast(State, lower, i)
        /\ \A n \in Range(Chain(State, c)) \cup {header[c]} :
              \A i \in DOMAIN forward[n] :
                 forward[n][i] \in Range(Chain(State, c)) \cup {NULL}

\* An erase has destroyed a node and left three levels of chains of
\* different lengths: two nodes, the second of level 1 only, the first of
\* level 2.
C26_Witness ==
    /\ ret.op \in {"erase_pos", "erase_key", "erase_range"}
    /\ net[1] = 2
    /\ Len(LevelChain(State, 1, 0)) = 2
    /\ Len(LevelChain(State, 1, 1)) = 2
    /\ Len(LevelChain(State, 1, 2)) = 1
    /\ LevelChain(State, 1, 2) = <<Chain(State, 1)[1]>>

\* The last node of the chain of level i of container c whose element is
\* ordered before v; the header if there is none.
PredAt(st, c, i, v) ==
    LET ch == LevelChain(st, c, i)
        before == {k \in 1..Len(ch) : comp(Data(st, ch[k]), v)}
    IN IF i > st.level[c] \/ before = {} THEN st.header[c]
       ELSE ch[CHOOSE k \in before : \A j \in before : j <= k]

\* C28: a successful insert(v) whose new node n has level L links n, at
\* every level i in 0..L, between the predecessor of v at level i and that
\* predecessor's former successor; n's backward link is the level-0
\* predecessor; the backward link of the level-0 successor, or of the header
\* when there is none, is n; no other link of any node changes.
C28_InsertSplice ==
    [][\A c \in Live :
        (ret'.op = "insert" /\ ret'.c = c /\ ret'.n = 1)
        => \E pre \in {State}, post \in {Post}, n \in {ret'.node}, v \in {ret'.key} :
           \E L \in {NodeLevel(post, n)} :
           \E pred \in {[i \in 0..L |-> PredAt(pre, c, i, v)]} :
           \E succ \in {[i \in 0..L |-> Fwd(pre, pred[i], i)]} :
           \E back \in {IF succ[0] # NULL THEN succ[0] ELSE header[c]} :
              /\ ~ub'
              /\ n \in allocated' \ allocated
              /\ Data(post, n) = v
              /\ \A i \in 0..L :
                    /\ succ[i] # WILD
                    /\ Fwd(post, pred[i], i) = n
                    /\ Fwd(post, n, i) = succ[i]
              /\ Bwd(post, n) = pred[0]
              /\ Bwd(post, back) = n
              /\ \A m \in allocated :
                    /\ DOMAIN forward'[m] = DOMAIN forward[m]
                    /\ \A i \in DOMAIN forward[m] :
                          (i > L \/ m # pred[i]) => forward'[m][i] = forward[m][i]
                    /\ m # back => backward'[m] = backward[m]
                    /\ data'[m] = data[m]
      ]_vars

\* An insert has placed a node of level 2 between a node of level 0 and a
\* following node: its level-0 predecessor is a stored node, its predecessors
\* above are the header.
C28_Witness ==
    /\ ret.op = "insert"
    /\ ret.n = 1
    /\ Len(Chain(State, 1)) = 3
    /\ Chain(State, 1)[2] = ret.node
    /\ NodeLevel(State, ret.node) = 2
    /\ NodeLevel(State, Chain(State, 1)[1]) = 0
    /\ Fwd(State, header[1], 1) = ret.node
    /\ Bwd(State, ret.node) = Chain(State, 1)[1]
    /\ Bwd(State, Chain(State, 1)[3]) = ret.node

\* The chain of level i of container c visits no node twice, holds at most
\* size nodes and ends in null.
ChainEnds(st, c, i) ==
    \E ch \in {LevelChain(st, c, i)} :
        /\ Cardinality(Range(ch)) = Len(ch)
        /\ Len(ch) <= size(st, c)
        /\ Fwd(st, st.header[c], i) # WILD
        /\ ch # <<>> => Fwd(st, ch[Len(ch)], i) = NULL

\* How often the loop  while (current->forward[i] && comp(current->forward[i]->data, key))
\* runs  current = current->forward[i]  from current, counted up to fuel.
RECURSIVE WalkMoves(_, _, _, _, _)
WalkMoves(st, current, i, key, fuel) ==
    LET nxt == Fwd(st, current, i) IN
    IF fuel > 0 /\ nxt # NULL /\ nxt # WILD /\ comp(Data(st, nxt), key)
    THEN 1 + WalkMoves(st, nxt, i, key, fuel - 1)
    ELSE 0

\* The same count for upper_bound's loop, whose test is
\* !comp(key, current->forward[i]->data).
RECURSIVE WalkUpperMoves(_, _, _, _, _)
WalkUpperMoves(st, current, i, key, fuel) ==
    LET nxt == Fwd(st, current, i) IN
    IF fuel > 0 /\ nxt # NULL /\ nxt # WILD /\ ~comp(key, Data(st, nxt))
    THEN 1 + WalkUpperMoves(st, nxt, i, key, fuel - 1)
    ELSE 0

\* The forward steps of the descent of find, lower_bound, insert and erase
\* for key through the levels i..0, with the level + 1 rounds of the outer
\* loop: the moves of each level, counted from the node the levels above end on.
RECURSIVE DescentSteps(_, _, _, _)
DescentSteps(st, c, i, key) ==
    IF i < 0 THEN 0
    ELSE 1 + WalkMoves(st, DescendLevels(st, st.header[c], st.level[c], i + 1, key),
                       i, key, NumSlots + 1)
           + DescentSteps(st, c, i - 1, key)

\* The same for the descent of upper_bound.
RECURSIVE UpperDescentSteps(_, _, _, _)
UpperDescentSteps(st, c, i, key) ==
    IF i < 0 THEN 0
    ELSE 1 + WalkUpperMoves(st, DescendUpperLevels(st, st.header[c], st.level[c], i + 1, key),
                            i, key, NumSlots + 1)
           + UpperDescentSteps(st, c, i - 1, key)

\* Keys that are ordered among the stored values, and one ordered after all
\* of them.
ProbeKeys == 1..(NumVals + 2)

\* C25: every loop over the structure ends: the chain of every level is
\* finite, visits no node twice and ends in null, and the descent of a
\* lookup, an insert or an erase for any key takes at most size + level + 1
\* forward steps.
C25_Terminates ==
    /\ \A c \in Live : \A i \in 0..MAX_LEVEL : ChainEnds(State, c, i)
    /\ \A c \in Live : \A key \in ProbeKeys :
          /\ DescentSteps(State, c, level[c], key) <= size(State, c) + level[c] + 1
          /\ UpperDescentSteps(State, c, level[c], key) <= size(State, c) + level[c] + 1

\* Three elements under a top level of 2, and a key whose descent passes
\* every element: it takes size + level + 1 steps.
C25_Witness ==
    /\ size(State, 1) = 3
    /\ level[1] = 2
    /\ Len(LevelChain(State, 1, 2)) = 1
    /\ DescentSteps(State, 1, level[1], NumVals + 2) = size(State, 1) + level[1] + 1

====
